---- MODULE Spec2Model ----
(***************************************************************************)
(* Retrieval-augmented question answering service (app/).                  *)
(*                                                                         *)
(* Python strings that the code inspects (document text, chunk content,    *)
(* the input of the chunk fingerprint) are sequences of one-character      *)
(* strings, so that split, join, strip and str(i) are computed as Python   *)
(* computes them.  Strings the code only passes around (URLs, answer       *)
(* texts, error tags) are TLA+ strings.                                    *)
(***************************************************************************)
EXTENDS Integers, Sequences, FiniteSets, TLC

VARIABLES
    chunker,      \* a method applied on its own: its arguments and its result
    collection,   \* the Qdrant collection: whether it exists, and its points by id
    req,          \* per request task: position, inputs, locals, answers so far
    running,      \* the task that holds the event loop between awaits (0: none)
    started,      \* number of requests received so far
    last_text     \* per URL: the text of its latest successful ingestion

vars == <<chunker, collection, req, running, started, last_text>>

\* ------------------------------------------------------------------ bounds
\* Longest document text (characters) given to chunk_text on its own.
MaxTextLen == 5
\* Largest settings.CHUNK_SIZE tried for chunk_text on its own.
MaxChunkSize == 3
\* Largest settings.CHUNK_OVERLAP tried for chunk_text on its own.
MaxChunkOverlap == 4

\* Most words in the text of a downloaded document.
MaxDocWords == 2
\* Most questions in one request.
MaxQuestions == 2
\* Requests received in one run.
MaxRequests == 2
\* Largest number of points of a collection searched on its own.
MaxPoints == 3
\* Largest limit of a search on its own.
MaxLimit == 2
\* Largest number of retrieval results given to _prepare_context on its own.
MaxResults == 6
\* Largest number of words of a document whose chunk ids are compared.
MaxIdWords == 12

\* Characters of a document text: two letters and whitespace.
Chars == {"a", "b", " "}

SeqsUpTo(S, n) == UNION {[1..k -> S] : k \in 0..n}

Min(a, b) == IF a <= b THEN a ELSE b

\* ------------------------------------------------------- Python primitives
IsSpace(c) == c = " "

\* str.split(): the maximal runs of non-whitespace characters, in order.
RECURSIVE split_from(_, _, _)
split_from(s, word, acc) ==
    IF s = <<>>
    THEN IF word = <<>> THEN acc ELSE Append(acc, word)
    ELSE IF IsSpace(Head(s))
         THEN split_from(Tail(s), <<>>, IF word = <<>> THEN acc ELSE Append(acc, word))
         ELSE split_from(Tail(s), Append(word, Head(s)), acc)

split(s) == split_from(s, <<>>, <<>>)

\* " ".join(words)
RECURSIVE join(_)
join(ws) ==
    IF ws = <<>> THEN <<>>
    ELSE IF Len(ws) = 1 THEN ws[1]
    ELSE ws[1] \o <<" ">> \o join(Tail(ws))

\* str.strip()
RECURSIVE lstrip(_)
lstrip(s) == IF s # <<>> /\ IsSpace(Head(s)) THEN lstrip(Tail(s)) ELSE s

RECURSIVE rstrip(_)
rstrip(s) ==
    IF s # <<>> /\ IsSpace(s[Len(s)]) THEN rstrip(SubSeq(s, 1, Len(s) - 1)) ELSE s

strip(s) == rstrip(lstrip(s))

\* str(i) for i >= 0: the decimal digits.
RECURSIVE str(_)
str(i) ==
    LET digit(d) == <<"0", "1", "2", "3", "4", "5", "6", "7", "8", "9">>[d + 1]
    IN IF i < 10 THEN <<digit(i)>> ELSE str(i \div 10) \o <<digit(i % 10)>>

\* range(0, stop, step) for stop >= 0 and step # 0, as the sequence it yields.
range(stop, step) ==
    IF step > 0
    THEN [k \in 1..((stop + step - 1) \div step) |-> (k - 1) * step]
    ELSE <<>>

\* xs[lo:hi] for 0 <= lo and 0 <= hi.
slice(xs, lo, hi) == SubSeq(xs, lo + 1, Min(hi, Len(xs)))

\* hashlib.md5(s.encode()).hexdigest(): a digest is identified with the string
\* digested (no two strings of the model collide).
md5(s) == <<"md5", s>>

\* Values of DocumentChunk.embedding: None, a list of floats, or (after the
\* zip over a flat list) one float.
None == [tag |-> "None", val |-> <<>>]
FloatList(v) == [tag |-> "list", val |-> v]
Float(x) == [tag |-> "float", val |-> <<x>>]

\* ----------------------------------------------------------------- Chunker
\* DocumentProcessor.chunk_text.  chunk_size >= 1 and chunk_overlap >= 0.
\* The result is [raised, chunks]: range() raises ValueError for a step of 0.
chunk_text(text, metadata, chunk_size, chunk_overlap) ==
    LET words == split(text)
        step == chunk_size - chunk_overlap
    IN  IF step = 0
        THEN [raised |-> "ValueError", chunks |-> <<>>]
        ELSE
          LET starts == range(Len(words), step)
              chunk(n) ==
                  LET i == starts[n]
                      chunk_words == slice(words, i, i + chunk_size)
                      chunk_str == join(chunk_words)
                  IN [id |-> md5(chunk_str \o str(i)),
                      embedding |-> None,
                      content |-> strip(chunk_str),
                      metadata |-> [chunk_index |-> n - 1,
                                    start_word |-> i,
                                    end_word |-> Min(i + chunk_size, Len(words)),
                                    word_count |-> Len(chunk_words)] @@ metadata]
          IN [raised |-> "none", chunks |-> [n \in 1..Len(starts) |-> chunk(n)]]

\* The tokens of a chunk: what splitting its content gives back.
Tokens(c) == split(c.content)

\* Last n elements / first n elements of a sequence, as xs[-n:] and xs[:n] (n >= 1).
LastN(xs, n) == SubSeq(xs, IF Len(xs) > n THEN Len(xs) - n + 1 ELSE 1, Len(xs))
FirstN(xs, n) == SubSeq(xs, 1, Min(n, Len(xs)))

\* ---------------------------------------------------------------- Settings
\* settings.CHUNK_SIZE and settings.CHUNK_OVERLAP as the service runs with them
\* (1000 and 200 words in config.py, scaled to the documents of the model).
CHUNK_SIZE == 2
CHUNK_OVERLAP == 1
\* settings.EMBEDDING_DIMENSION (384 in config.py): one component per letter.
EMBEDDING_DIMENSION == 2

\* ---------------------------------------------------------------- Embedder
\* SentenceTransformer.encode(text, normalize_embeddings=True) for one text.  The
\* pretrained model is outside the repository; it is represented by a fixed
\* deterministic embedding of dimension EMBEDDING_DIMENSION that counts the
\* letters of the text.  A vector stands for its direction: the unit vector the
\* model returns is this vector divided by its norm, and the cosine score does
\* not depend on the norm.
Letters == <<"a", "b">>

Count(s, c) == Cardinality({k \in 1..Len(s) : s[k] = c})

encode(text) == [d \in 1..EMBEDDING_DIMENSION |-> Count(text, Letters[d])]

\* EmbeddingService.create_embeddings.  is_str: texts is one str, not a list.
\* The value returned is a Python list: [tag |-> "flat"] is a list of floats (one
\* vector), [tag |-> "nested"] a list of vectors.  fails: model.encode raises.
create_embeddings(texts, is_str, fails) ==
    LET batch == IF is_str THEN <<texts>> ELSE texts
        embeddings == [n \in 1..Len(batch) |-> encode(batch[n])]
    IN  IF fails
        THEN [raised |-> "Failed to create embeddings", tag |-> "flat", val |-> <<>>]
        ELSE IF Len(batch) = 1
        THEN [raised |-> "none", tag |-> "flat", val |-> embeddings[1]]
        ELSE [raised |-> "none", tag |-> "nested", val |-> embeddings]

\* for chunk, embedding in zip(chunks, embeddings): chunk.embedding = embedding
attach_embeddings(chunks, embeddings) ==
    [n \in 1..Len(chunks) |->
        [chunks[n] EXCEPT !.embedding =
            IF n > Len(embeddings.val) THEN @
            ELSE IF embeddings.tag = "nested" THEN FloatList(embeddings.val[n])
            ELSE Float(embeddings.val[n])]]

\* ------------------------------------------------------------ Vector index
\* Largest s with s * s <= v, for v >= 0.
RECURSIVE isqrt_in(_, _, _)
isqrt_in(v, lo, hi) ==
    IF lo >= hi THEN lo
    ELSE LET mid == (lo + hi + 1) \div 2
         IN IF mid * mid <= v THEN isqrt_in(v, mid, hi) ELSE isqrt_in(v, lo, mid - 1)

Dot(x, y) ==
    LET RECURSIVE sum(_)
        sum(n) == IF n = 0 THEN 0 ELSE x[n] * y[n] + sum(n - 1)
    IN sum(Len(x))

\* Qdrant's Distance.COSINE score of two vectors with non-negative components,
\* in units of 0.00001 (computed to three decimals).
Cosine(x, y) ==
    IF Dot(x, x) = 0 \/ Dot(y, y) = 0 THEN 0
    ELSE 100 * isqrt_in((Dot(x, y) * Dot(x, y) * 1000000) \div (Dot(x, x) * Dot(y, y)),
                        0, 1000)

\* Mutant of _get_relevance_label: the lower bound of a tier is excluded.
_get_relevance_label_ExclusiveBounds(score) ==
    IF score > 80000 THEN "high"
    ELSE IF score > 60000 THEN "medium"
    ELSE "low"

\* VectorDBService._get_relevance_label, scores in units of 0.00001.
_get_relevance_label(score) ==
    IF score >= 80000 THEN "high"
    ELSE IF score >= 60000 THEN "medium"
    ELSE "low"

NoPoints == [id \in {} |-> None]
NoCollection == [exists |-> FALSE, points |-> NoPoints]

\* PointStruct(id, vector, payload) validates its vector: a list of floats.
PointStructOk(chunk) == chunk.embedding.tag = "list"

\* Mutant of upsert: every point written is added under a fresh id.
upsert_AppendsNewPoints(points, chunks) ==
    LET fresh(n) == <<"uuid", Cardinality(DOMAIN points) + n>>
    IN [id \in DOMAIN points \cup {fresh(n) : n \in 1..Len(chunks)} |->
          IF id \in DOMAIN points THEN points[id]
          ELSE LET n == CHOOSE n \in 1..Len(chunks) : fresh(n) = id
               IN [vector |-> chunks[n].embedding.val,
                   payload |-> [content |-> chunks[n].content,
                                metadata |-> chunks[n].metadata]]]

\* client.upsert: the points replace or add the points of their ids.
upsert(points, chunks) ==
    [id \in DOMAIN points \cup {chunks[n].id : n \in 1..Len(chunks)} |->
        IF \E n \in 1..Len(chunks) : chunks[n].id = id
        THEN LET last == CHOOSE n \in 1..Len(chunks) :
                            /\ chunks[n].id = id
                            /\ \A m \in n + 1..Len(chunks) : chunks[m].id # id
             IN [vector |-> chunks[last].embedding.val,
                 payload |-> [content |-> chunks[last].content,
                              metadata |-> chunks[last].metadata]]
        ELSE points[id]]

\* Mutant of store_chunks: a chunk without embedding is an error of the call.
store_chunks_RejectsMissingEmbedding(coll, chunks, qdrant) ==
    IF qdrant # "ok" \/ \E n \in 1..Len(chunks) : chunks[n].embedding.tag # "list"
    THEN [raised |-> "Failed to store chunks", collection |-> coll]
    ELSE [raised |-> "none",
          collection |-> [exists |-> TRUE, points |-> upsert(coll.points, chunks)]]

\* VectorDBService.store_chunks (with create_collection).  qdrant: "ok", or the
\* call of the Qdrant client that fails ("get_collections", "upsert").  The
\* result is [raised, collection].
store_chunks(coll, chunks, qdrant) ==
    LET created == [coll EXCEPT !.exists = TRUE]
        with_embedding == SelectSeq(chunks, LAMBDA c : c.embedding # None)
    IN  IF qdrant = "get_collections"
        THEN [raised |-> "Failed to store chunks", collection |-> coll]
        ELSE IF \E n \in 1..Len(with_embedding) : ~PointStructOk(with_embedding[n])
        THEN [raised |-> "Failed to store chunks", collection |-> created]
        ELSE IF with_embedding = <<>>
        THEN [raised |-> "none", collection |-> created]
        ELSE IF \/ qdrant = "upsert"
                \/ \E n \in 1..Len(with_embedding) :
                      Len(with_embedding[n].embedding.val) # EMBEDDING_DIMENSION
        THEN [raised |-> "Failed to store chunks", collection |-> created]
        ELSE [raised |-> "none",
              collection |-> [exists |-> TRUE,
                              points |-> upsert(coll.points, with_embedding)]]

\* Mutant of by_score: the ids in non-decreasing order of score.
RECURSIVE by_score_LowestFirst(_, _)
by_score_LowestFirst(S, score) ==
    IF S = {} THEN <<>>
    ELSE LET low == CHOOSE p \in S : \A q \in S : score[p] <= score[q]
         IN <<low>> \o by_score_LowestFirst(S \ {low}, score)

\* The ids of S in non-increasing order of score (equal scores: a fixed order).
RECURSIVE by_score(_, _)
by_score(S, score) ==
    IF S = {} THEN <<>>
    ELSE LET top == CHOOSE p \in S : \A q \in S : score[q] <= score[p]
         IN <<top>> \o by_score(S \ {top}, score)

\* VectorDBService.search_similar_chunks.  The result is [raised, results], the
\* results being RetrievalResult values; their chunks carry the point id too.
search_similar_chunks(coll, query_embedding, limit, score_threshold, reachable) ==
    IF ~reachable \/ ~coll.exists \/ query_embedding.tag # "flat"
    THEN [raised |-> "Failed to search chunks", results |-> <<>>]
    ELSE
      LET score == [id \in DOMAIN coll.points |->
                        Cosine(query_embedding.val, coll.points[id].vector)]
          found == by_score({id \in DOMAIN coll.points : score[id] >= score_threshold},
                            score)
          search_result == SubSeq(found, 1, Min(limit, Len(found)))
      IN [raised |-> "none",
          results |-> [n \in 1..Len(search_result) |->
              LET id == search_result[n]
              IN [chunk |-> [id |-> id,
                             content |-> coll.points[id].payload.content,
                             metadata |-> coll.points[id].payload.metadata,
                             embedding |-> None],
                  score |-> score[id],
                  relevance |-> _get_relevance_label(score[id])]]]

\* ------------------------------------------------------- Answer generator
\* f"{score:.3f}": the score to three decimals (scores are in units of 0.00001).
Format3(score) == (score + 50) \div 100

\* Mutant of _prepare_context: one entry per result, however many there are.
_prepare_context_AllResults(context_chunks) ==
    [i \in 1..Len(context_chunks) |->
        [number |-> i,
         relevance |-> (context_chunks[i].score + 50) \div 100,
         chunk_text |-> context_chunks[i].chunk.content]]

\* LLMService._prepare_context: one entry per result among the first five.
_prepare_context(context_chunks) ==
    [i \in 1..Min(5, Len(context_chunks)) |->
        [number |-> i,
         relevance |-> Format3(context_chunks[i].score),
         chunk_text |-> context_chunks[i].chunk.content]]

\* LLMService._create_prompt: the fixed instructions around context and question.
_create_prompt(question, context) == [question |-> question, context |-> context]

NoPrompt == [question |-> <<>>, context |-> <<>>]

\* ------------------------------------------------------------ Orchestrator
URLs == {"a.pdf", "b"}

\* url.lower().endswith(suffix) on the URLs of the model.
endswith(url, suffix) == <<url, suffix>> \in {<<"a.pdf", ".pdf">>}

Questions == {<<"a">>, <<"b">>}

Tasks == {1}

\* Texts of the documents: up to MaxDocWords one-letter words, a space between.
DocTexts == {join(ws) : ws \in SeqsUpTo({<<"a">>, <<"b">>}, MaxDocWords)}

\* What a download can give: a PDF or DOCX file with its text, or other bytes.
Contents ==
    {[kind |-> k, text |-> t] : k \in {"pdf", "docx"}, t \in DocTexts}
        \cup {[kind |-> "other", text |-> <<>>]}

\* Responses of the download: an error, or the bytes of the document.
Downloads ==
    {[ok |-> FALSE, content |-> [kind |-> "other", text |-> <<>>]]}
        \cup {[ok |-> TRUE, content |-> c] : c \in Contents}

\* The call that fails during an ingestion after the download, if any: the
\* embedding model, or one of the two calls of the Qdrant client.
IngestFaults == {"none", "encode", "get_collections", "upsert"}

\* DocumentProcessor.extract_text_from_pdf / extract_text_from_docx
extract_text_from_pdf(content) ==
    IF content.kind = "pdf" THEN [raised |-> "none", text |-> content.text]
    ELSE [raised |-> "Failed to extract PDF text", text |-> <<>>]

extract_text_from_docx(content) ==
    IF content.kind = "docx" THEN [raised |-> "none", text |-> content.text]
    ELSE [raised |-> "Failed to extract DOCX text", text |-> <<>>]

\* DocumentProcessor.process_document, from the response of the download on.
\* download: [ok, content].  The result is [raised, text, chunks].
process_document(document_url, download) ==
    LET failed(why) == [raised |-> why, text |-> <<>>, chunks |-> <<>>]
        pdf == extract_text_from_pdf(download.content)
        docx == extract_text_from_docx(download.content)
        extracted ==
            IF endswith(document_url, ".pdf") THEN pdf @@ [doc_type |-> "pdf"]
            ELSE IF endswith(document_url, ".docx") THEN docx @@ [doc_type |-> "docx"]
            ELSE IF pdf.raised = "none" THEN pdf @@ [doc_type |-> "pdf"]
            ELSE docx @@ [doc_type |-> "docx"]
    IN  IF ~download.ok THEN failed("Failed to download document")
        ELSE IF extracted.raised # "none" THEN failed(extracted.raised)
        ELSE LET metadata == [source_url |-> document_url,
                              document_type |-> extracted.doc_type]
                 out == chunk_text(extracted.text, metadata, CHUNK_SIZE, CHUNK_OVERLAP)
             IN IF out.raised # "none" THEN failed(out.raised)
                ELSE [raised |-> "none", text |-> extracted.text, chunks |-> out.chunks]

\* An entry of the calls of a task: the service method the orchestrator called,
\* and the number of the question it was called for (0: for the document).
Called(method, question) == [method |-> method, question |-> question]

\* The try block of RetrievalService.process_and_store_document, from the
\* response of the download on.  The result is [error, chunks, text, collection,
\* calls]: error is the exception raised in the block ("none": it completed),
\* chunks are the chunks as handed to store_chunks, calls are the service
\* methods called after process_document, in order.
ingest_steps(coll, document_url, download, embed_fails, qdrant) ==
    LET doc == process_document(document_url, download)
        chunk_texts == [n \in 1..Len(doc.chunks) |-> doc.chunks[n].content]
        embeddings == create_embeddings(chunk_texts, FALSE, embed_fails)
        chunks == attach_embeddings(doc.chunks, embeddings)
        stored == store_chunks(coll, chunks, qdrant)
        result(error, cs, c, calls) ==
            [error |-> error, chunks |-> cs, text |-> doc.text, collection |-> c,
             calls |-> calls]
    IN  IF doc.raised # "none" THEN result(doc.raised, <<>>, coll, <<>>)
        ELSE IF embeddings.raised # "none"
        THEN result(embeddings.raised, <<>>, coll, <<Called("create_embeddings", 0)>>)
        ELSE result(stored.raised, chunks, stored.collection,
                    <<Called("create_embeddings", 0), Called("store_chunks", 0)>>)

\* Mutant of process_and_store_document: the except clause logs the error and
\* returns an error status instead of raising.
process_and_store_document_ReturnsStatus(coll, document_url, download, embed_fails, qdrant) ==
    ingest_steps(coll, document_url, download, embed_fails, qdrant)
        @@ [raised |-> "none"]

\* RetrievalService.process_and_store_document: the except clause logs the error
\* of the try block and raises it again, wrapped.  raised is the exception that
\* reaches the caller ("none": the call returns).
process_and_store_document(coll, document_url, download, embed_fails, qdrant) ==
    LET out == ingest_steps(coll, document_url, download, embed_fails, qdrant)
    IN out @@ [raised |-> out.error]

\* Mutant of error_answers: one error message for the whole batch.
error_answers_OneForBatch(questions, e) ==
    <<[kind |-> "Error processing document", detail |-> e]>>

\* process_query_batch, the outer except clause: one error message per question.
error_answers(questions, e) ==
    [i \in 1..Len(questions) |-> [kind |-> "Error processing document", detail |-> e]]

\* Answer strings, by the statement that builds them.
QuestionError(q, e) ==
    [kind |-> "I encountered an error while processing your question", question |-> q,
     detail |-> e]
NotFound(q) == [kind |-> "I couldn't find relevant information", question |-> q]
GenerationError(q) ==
    [kind |-> "I couldn't generate an answer due to a technical error", question |-> q]
\* The text the chat-completion model returns for a prompt.
Completion(prompt) == [kind |-> "answer", question |-> prompt.question]

IsErrorString(a) ==
    a.kind \in {"Error processing document",
                "I encountered an error while processing your question",
                "I couldn't generate an answer due to a technical error"}

\* token_ok: the bearer token of the request equals settings.API_KEY.  calls:
\* the service methods called for the request so far.  relevant_chunks: the
\* results of the search of the question being answered.
TaskIdle ==
    [pc |-> "idle", status |-> 0, token_ok |-> TRUE, url |-> "", questions |-> <<>>,
     ingest |-> "none", chunks_processed |-> 0, faults |-> <<>>, answers |-> <<>>,
     prompt |-> NoPrompt, calls |-> <<>>, relevant_chunks |-> <<>>]

\* last_text[url]: times is the number of successful ingestions of the URL in a
\* row that gave this text (0: the URL was never ingested).
NeverIngested == [times |-> 0, text |-> <<>>]

ChunkerIdle == [pc |-> "idle"]

Init ==
    /\ chunker = ChunkerIdle
    /\ collection = NoCollection
    /\ req = [r \in Tasks |-> TaskIdle]
    /\ running = 0
    /\ started = 0
    /\ last_text = [u \in URLs |-> NeverIngested]

Free(r) == req[r].pc = "idle"

\* The loop of process_query_batch with the answers it holds after a question:
\* on to the next question without yielding, or return the answers
\* (QueryResponse, status 200).  fault: the call that failed while the question
\* was answered ("none": no call failed).
Continue(r, task, answers, fault) ==
    LET finished == Len(answers) = Len(task.questions)
    IN /\ req' = [req EXCEPT ![r] =
                    [task EXCEPT !.answers = answers, !.prompt = NoPrompt,
                                 !.relevant_chunks = <<>>,
                                 !.faults = Append(@, fault),
                                 !.pc = IF finished THEN "done" ELSE "answering",
                                 !.status = IF finished THEN 200 ELSE 0]]
       /\ running' = IF finished THEN 0 ELSE r

\* Mutant of Appended: the error of one question escapes answer_question and the
\* loop, and the outer except clause answers the whole batch with it.
Appended_AbortsBatch(r, task, answer, fault) ==
    IF fault = "none" THEN Continue(r, task, Append(task.answers, answer), fault)
    ELSE Continue(r, task, error_answers(task.questions, fault), fault)

\* Mutant of Appended: a question for which a call failed is asked again.
Appended_RetriesQuestion(r, task, answer, fault) ==
    IF fault = "none" THEN Continue(r, task, Append(task.answers, answer), fault)
    ELSE /\ req' = [req EXCEPT ![r] = [task EXCEPT !.pc = "answering",
                                                   !.prompt = NoPrompt,
                                                   !.relevant_chunks = <<>>]]
         /\ running' = r

\* answer_question returned the answer of the current question (its except clause
\* turns an error into the answer): the loop appends it.
Appended(r, task, answer, fault) ==
    Continue(r, task, Append(task.answers, answer), fault)

\* Mutant of verify_token: every token is accepted.
verify_token_AcceptsAny(token_ok) == 0

\* security.verify_token: the status of the HTTPException it raises (0: none).
verify_token(token_ok) == IF ~token_ok THEN 401 ELSE 0

\* routes.run_query up to the await of the download: verify_token, the two
\* validations, and process_query_batch entering download_document.
RunQuery(r) ==
    /\ running = 0
    /\ Free(r)
    /\ \A other \in Tasks : other < r => ~Free(other)
    /\ started < MaxRequests
    /\ started' = started + 1
    /\ \E token_ok \in BOOLEAN, url \in URLs \cup {""},
          questions \in SeqsUpTo(Questions, MaxQuestions) :
          LET task == [TaskIdle EXCEPT !.url = url, !.questions = questions,
                                       !.token_ok = token_ok]
          IN req' = [req EXCEPT ![r] =
                 IF verify_token(token_ok) # 0
                 THEN [TaskIdle EXCEPT !.pc = "rejected", !.token_ok = token_ok,
                                       !.status = verify_token(token_ok)]
                 ELSE IF url = "" \/ questions = <<>>
                 THEN [task EXCEPT !.pc = "rejected", !.status = 400]
                 ELSE [task EXCEPT !.pc = "downloading",
                                   !.calls = <<Called("process_document", 0)>>]]
    /\ UNCHANGED <<chunker, collection, running, last_text>>

\* process_query_batch after process_and_store_document returned or raised out:
\* on to the first question (ingestion stored), or the list of error answers.
\* last_text[url].times is the number of successful ingestions of the URL in a
\* row that gave the same text.
Ingested(r, out) ==
    LET task == [req[r] EXCEPT !.chunks_processed = Len(out.chunks),
                               !.ingest = out.error,
                               !.calls = @ \o out.calls]
        before == last_text[req[r].url]
    IN /\ collection' = out.collection
       /\ IF out.raised = "none"
          THEN /\ req' = [req EXCEPT ![r] = [task EXCEPT !.pc = "answering"]]
               /\ running' = r
               /\ last_text' = [last_text EXCEPT ![req[r].url] =
                      [times |-> IF before.times > 0 /\ before.text = out.text
                                 THEN before.times + 1 ELSE 1,
                       text |-> out.text]]
          ELSE /\ req' = [req EXCEPT ![r] =
                            [task EXCEPT
                               !.pc = "done", !.status = 200,
                               !.answers = error_answers(req[r].questions, out.raised)]]
               /\ UNCHANGED <<running, last_text>>

\* process_query_batch from the response of the download to the first question
\* (ingestion stored) or to the list of error answers (ingestion failed).
IngestDocument(r) ==
    /\ running = 0
    /\ req[r].pc = "downloading"
    /\ \E download \in Downloads, fault \in IngestFaults :
          Ingested(r, process_and_store_document(
                          collection, req[r].url, download, fault = "encode",
                          IF fault \in {"get_collections", "upsert"} THEN fault ELSE "ok"))
    /\ UNCHANGED <<chunker, started>>

\* The task after it called the methods for its question i, in order.
WithCalls(task, methods, i) ==
    [task EXCEPT !.calls = @ \o [n \in 1..Len(methods) |-> Called(methods[n], i)]]

\* RetrievalService.answer_question for the next question, up to the await of the
\* chat-completion call or to the answer it returns without one.
AnswerQuestion(r) ==
    /\ running = r
    /\ req[r].pc = "answering"
    /\ \E embed_fails \in BOOLEAN, reachable \in BOOLEAN :
          LET i == Len(req[r].answers) + 1
              question == req[r].questions[i]
              question_embedding == create_embeddings(question, TRUE, embed_fails)
              found == search_similar_chunks(collection, question_embedding, 10, 30000,
                                             reachable)
              embedded == WithCalls(req[r], <<"create_embeddings">>, i)
              searched == WithCalls(req[r], <<"create_embeddings",
                                              "search_similar_chunks">>, i)
          IN IF question_embedding.raised # "none"
             THEN Appended(r, embedded,
                           QuestionError(question, question_embedding.raised), "encode")
             ELSE IF found.raised # "none"
             THEN Appended(r, searched, QuestionError(question, found.raised), "search")
             ELSE IF found.results = <<>>
             THEN Appended(r, searched, NotFound(question), "none")
             ELSE /\ req' = [req EXCEPT ![r] =
                       [WithCalls(req[r], <<"create_embeddings", "search_similar_chunks",
                                            "generate_answer">>, i)
                           EXCEPT !.pc = "generating",
                                  !.relevant_chunks = found.results,
                                  !.prompt = _create_prompt(
                                      question, _prepare_context(found.results))]]
                  /\ running' = 0
    /\ UNCHANGED <<chunker, collection, started, last_text>>

\* LLMService.generate_answer from the response of the chat-completion call on,
\* and answer_question returning its answer to the loop of process_query_batch.
GenerateAnswer(r) ==
    /\ running = 0
    /\ req[r].pc = "generating"
    /\ \E api_ok \in BOOLEAN :
          Appended(r, req[r],
                   IF api_ok THEN Completion(req[r].prompt)
                   ELSE GenerationError(req[r].prompt.question),
                   IF api_ok THEN "none" ELSE "chat/completions")
    /\ UNCHANGED <<chunker, collection, started, last_text>>

\* The response (QueryResponse, or the HTTPException raised) leaves the handler
\* and the task ends.
Respond(r) ==
    /\ req[r].pc \in {"done", "rejected"}
    /\ req' = [req EXCEPT ![r] = TaskIdle]
    /\ UNCHANGED <<chunker, collection, running, started, last_text>>

Next ==
    \E r \in Tasks :
        \/ RunQuery(r)
        \/ IngestDocument(r)
        \/ AnswerQuestion(r)
        \/ GenerateAnswer(r)
        \/ Respond(r)

Spec == Init /\ [][Next]_vars

\* ------------------------------------------- chunk_text applied on its own
ChunkerInit ==
    /\ collection = NoCollection
    /\ req = [r \in Tasks |-> TaskIdle]
    /\ running = 0
    /\ started = 0
    /\ last_text = [u \in URLs |-> NeverIngested]
    /\ \E text \in SeqsUpTo(Chars, MaxTextLen), size \in 1..MaxChunkSize,
       overlap \in 0..MaxChunkOverlap :
        chunker = [pc |-> "call", text |-> text, chunk_size |-> size,
                   chunk_overlap |-> overlap]

ChunkTextCall ==
    /\ chunker.pc = "call"
    /\ LET out == chunk_text(chunker.text, [source_url |-> "doc"],
                             chunker.chunk_size, chunker.chunk_overlap)
       IN chunker' = [chunker EXCEPT !.pc = IF out.raised = "none" THEN "returned"
                                                                 ELSE "raised"]
                     @@ [chunks |-> out.chunks]
    /\ UNCHANGED <<collection, req, running, started, last_text>>

\* The EMBED step of process_and_store_document on the chunks returned: the
\* chunks as they are handed to store_chunks, or the error of the embedder.
EmbedChunks ==
    /\ chunker.pc = "returned"
    /\ \E fails \in BOOLEAN :
          LET chunk_texts == [n \in 1..Len(chunker.chunks) |-> chunker.chunks[n].content]
              embeddings == create_embeddings(chunk_texts, FALSE, fails)
          IN chunker' =
                IF embeddings.raised # "none"
                THEN [chunker EXCEPT !.pc = "embed_raised"]
                ELSE [chunker EXCEPT !.pc = "embedded",
                                     !.chunks = attach_embeddings(@, embeddings)]
    /\ UNCHANGED <<collection, req, running, started, last_text>>

ChunkerNext == ChunkTextCall \/ EmbedChunks

SpecChunk == ChunkerInit /\ [][ChunkerNext]_vars

\* ----------------------------------------------- search applied on its own
\* Vectors of the points of a collection searched on its own.
Coords == {0, 1, 2}
PointVectors == [1..EMBEDDING_DIMENSION -> Coords]

\* A point as store_chunks writes it, for the vector v.
PointOf(v) ==
    [vector |-> v,
     payload |-> [content |-> <<"a">>, metadata |-> [source_url |-> "doc"]]]

\* The collections of up to MaxPoints points (the collection exists: every
\* search of a request follows a create_collection that returned).
Collections ==
    {[exists |-> TRUE, points |-> [id \in {md5(v) : v \in V} |-> PointOf(id[2])]] :
        V \in {W \in SUBSET PointVectors : Cardinality(W) <= MaxPoints}}

\* Score thresholds, in units of 0.00001: 0.3 is the one answer_question uses.
Thresholds == {0, 30000, 70700, 100000}

SearchInit ==
    /\ req = [r \in Tasks |-> TaskIdle]
    /\ running = 0
    /\ started = 0
    /\ last_text = [u \in URLs |-> NeverIngested]
    /\ collection \in Collections
    /\ \E question \in Questions, limit \in 1..MaxLimit,
          score_threshold \in Thresholds :
          chunker = [pc |-> "call", query_embedding |-> create_embeddings(question, TRUE, FALSE),
                     limit |-> limit, score_threshold |-> score_threshold]

SearchCall ==
    /\ chunker.pc = "call"
    /\ \E reachable \in BOOLEAN :
          LET out == search_similar_chunks(collection, chunker.query_embedding,
                                           chunker.limit, chunker.score_threshold,
                                           reachable)
          IN chunker' = [chunker EXCEPT !.pc = IF out.raised = "none" THEN "returned"
                                                                    ELSE "raised"]
                        @@ [results |-> out.results, reachable |-> reachable]
    /\ UNCHANGED <<collection, req, running, started, last_text>>

SpecSearch == SearchInit /\ [][SearchCall]_vars

\* ------------------------------------ _get_relevance_label applied on its own
\* Cosine scores, in units of 0.00001: every 0.01 from 0 to 1, and the scores
\* next to the bounds of the tiers.
LabelScores == {1000 * k : k \in 0..100} \cup {59999, 60001, 79999, 80001}

LabelInit ==
    /\ req = [r \in Tasks |-> TaskIdle]
    /\ running = 0
    /\ started = 0
    /\ last_text = [u \in URLs |-> NeverIngested]
    /\ collection = NoCollection
    /\ \E score \in LabelScores : chunker = [pc |-> "call", score |-> score]

LabelCall ==
    /\ chunker.pc = "call"
    /\ chunker' = [pc |-> "returned", score |-> chunker.score,
                   relevance |-> _get_relevance_label(chunker.score)]
    /\ UNCHANGED <<collection, req, running, started, last_text>>

SpecLabel == LabelInit /\ [][LabelCall]_vars

\* --------------------------------------- _prepare_context applied on its own
\* A RetrievalResult as search_similar_chunks builds it.
ResultOf(content, score) ==
    [chunk |-> [id |-> md5(content), content |-> content,
                metadata |-> [source_url |-> "doc"], embedding |-> None],
     score |-> score,
     relevance |-> _get_relevance_label(score)]

\* Results of distinct contents; two of them have the same score.
ResultPool ==
    {ResultOf(<<"a">>, 90000), ResultOf(<<"b">>, 70750),
     ResultOf(<<"a", " ", "b">>, 70750), ResultOf(<<"b", " ", "a">>, 30000)}

\* The lists search_similar_chunks can return: non-increasing scores.
ResultLists ==
    {rs \in SeqsUpTo(ResultPool, MaxResults) :
        \A n \in 2..Len(rs) : rs[n - 1].score >= rs[n].score}

ContextInit ==
    /\ req = [r \in Tasks |-> TaskIdle]
    /\ running = 0
    /\ started = 0
    /\ last_text = [u \in URLs |-> NeverIngested]
    /\ collection = NoCollection
    /\ \E rs \in ResultLists : chunker = [pc |-> "call", context_chunks |-> rs]

PrepareContextCall ==
    /\ chunker.pc = "call"
    /\ chunker' = [pc |-> "returned", context_chunks |-> chunker.context_chunks,
                   context |-> _prepare_context(chunker.context_chunks)]
    /\ UNCHANGED <<collection, req, running, started, last_text>>

SpecContext == ContextInit /\ [][PrepareContextCall]_vars

\* ------------------------------------------------------- status operations
\* A Python dict without keys.
EmptyDict == [k \in {} |-> 0]

\* VectorDBService.get_collection_info: the description of the collection, or
\* the empty dict when client.get_collection raises (index unreachable, or no
\* such collection).
get_collection_info(coll, reachable) ==
    IF ~reachable \/ ~coll.exists THEN EmptyDict
    ELSE [name |-> "collection", points_count |-> Cardinality(DOMAIN coll.points),
          status |-> "green"]

\* RetrievalService.get_system_status: get_collection_info never raises, so the
\* except clause is not taken.
get_system_status(coll, reachable) ==
    [status |-> "operational", vector_database |-> get_collection_info(coll, reachable)]

StatusInit ==
    /\ req = [r \in Tasks |-> TaskIdle]
    /\ running = 0
    /\ started = 0
    /\ last_text = [u \in URLs |-> NeverIngested]
    /\ collection \in Collections \cup {NoCollection}
    /\ chunker = [pc |-> "idle"]

\* routes.health_check
HealthCheck ==
    /\ chunker.pc = "idle"
    /\ \E reachable \in BOOLEAN :
          LET system_status == get_system_status(collection, reachable)
          IN chunker' = [pc |-> "returned", route |-> "/health",
                         reachable |-> reachable, status_code |-> 200,
                         system_status |-> system_status,
                         body |-> [status |-> "healthy", system |-> system_status]]
    /\ UNCHANGED <<collection, req, running, started, last_text>>

\* routes.get_system_status, verify_token included.
GetSystemStatus ==
    /\ chunker.pc = "idle"
    /\ \E reachable \in BOOLEAN, token_ok \in BOOLEAN :
          chunker' =
             IF verify_token(token_ok) # 0
             THEN [pc |-> "rejected", route |-> "/system/status",
                   reachable |-> reachable, status_code |-> verify_token(token_ok)]
             ELSE LET status_info == get_system_status(collection, reachable)
                  IN [pc |-> "returned", route |-> "/system/status",
                      reachable |-> reachable, status_code |-> 200,
                      system_status |-> status_info, body |-> status_info]
    /\ UNCHANGED <<collection, req, running, started, last_text>>

StatusNext == HealthCheck \/ GetSystemStatus

SpecStatus == StatusInit /\ [][StatusNext]_vars

\* ----------------------------------------- store_chunks applied on its own
\* The chunks of a document text, every one with the embedding of its content.
EmbeddedChunks(text) ==
    LET chunks == chunk_text(text, [source_url |-> "doc"], CHUNK_SIZE, CHUNK_OVERLAP).chunks
    IN [n \in 1..Len(chunks) |->
           [chunks[n] EXCEPT !.embedding = FloatList(encode(chunks[n].content))]]

\* The lists of chunks given to store_chunks: the chunks of a document text,
\* any of them without embedding (DocumentChunk.embedding: Optional[List[float]]).
ChunkLists ==
    UNION {{[n \in 1..Len(EmbeddedChunks(text)) |->
                IF n \in missing THEN [EmbeddedChunks(text)[n] EXCEPT !.embedding = None]
                ELSE EmbeddedChunks(text)[n]] :
              missing \in SUBSET (1..Len(EmbeddedChunks(text)))} :
           text \in DocTexts}

\* The index before the call: no collection yet, or the chunks of a document.
StoredBefore ==
    {NoCollection} \cup
    {store_chunks(NoCollection, EmbeddedChunks(text), "ok").collection : text \in DocTexts}

StoreInit ==
    /\ req = [r \in Tasks |-> TaskIdle]
    /\ running = 0
    /\ started = 0
    /\ last_text = [u \in URLs |-> NeverIngested]
    /\ collection \in StoredBefore
    /\ \E chunks \in ChunkLists :
          chunker = [pc |-> "call", chunks |-> chunks, before |-> collection]

StoreChunksCall ==
    /\ chunker.pc = "call"
    /\ \E qdrant \in {"ok", "get_collections", "upsert"} :
          LET out == store_chunks(collection, chunker.chunks, qdrant)
          IN /\ chunker' = [chunker EXCEPT !.pc = IF out.raised = "none" THEN "returned"
                                                                        ELSE "raised"]
                            @@ [qdrant |-> qdrant]
             /\ collection' = out.collection
    /\ UNCHANGED <<req, running, started, last_text>>

SpecStore == StoreInit /\ [][StoreChunksCall]_vars

\* ---------------------------------------- ingestion into an empty index
\* Document texts whose words can end in a digit.
IdTexts == {join(ws) : ws \in SeqsUpTo({<<"a">>, <<"a", "1">>}, MaxIdWords)}

IdsInit ==
    /\ req = [r \in Tasks |-> TaskIdle]
    /\ running = 0
    /\ started = 0
    /\ last_text = [u \in URLs |-> NeverIngested]
    /\ collection = NoCollection
    /\ \E text \in IdTexts :
          chunker = [pc |-> "call", text |-> text, chunk_size |-> CHUNK_SIZE,
                     chunk_overlap |-> CHUNK_OVERLAP]

\* The STORE step of process_and_store_document on the chunks embedded.
StoreEmbedded ==
    /\ chunker.pc = "embedded"
    /\ \E qdrant \in {"ok", "get_collections", "upsert"} :
          LET out == store_chunks(collection, chunker.chunks, qdrant)
          IN /\ chunker' = [chunker EXCEPT !.pc = IF out.raised = "none" THEN "stored"
                                                                        ELSE "store_raised"]
             /\ collection' = out.collection
    /\ UNCHANGED <<req, running, started, last_text>>

IdsNext == ChunkTextCall \/ EmbedChunks \/ StoreEmbedded

SpecIds == IdsInit /\ [][IdsNext]_vars

\* ================================================================== claims

Done(r) == req[r].pc = "done"

\* C1.  The answers a request returns are as many as its questions, and slot i is
\* the answer or the error text built for question i, whatever failed.
C1_OneAnswerPerQuestionInOrder ==
    \A r \in Tasks :
        Done(r) =>
            /\ req[r].status = 200
            /\ Len(req[r].questions) >= 1
            /\ Len(req[r].answers) = Len(req[r].questions)
            /\ \A i \in 1..Len(req[r].answers) :
                  \/ req[r].answers[i].kind = "Error processing document"
                  \/ req[r].answers[i].question = req[r].questions[i]

\* C1 witness: two different questions answered, the first with the error text
\* of its failed generation call, the second with its own answer.
C1_Witness ==
    \E r \in Tasks :
        /\ Done(r)
        /\ Len(req[r].questions) = 2
        /\ req[r].questions[1] # req[r].questions[2]
        /\ req[r].answers[1] = GenerationError(req[r].questions[1])
        /\ req[r].answers[2].kind = "answer"

\* C2.  When a step of the ingestion failed (download, extraction, embedding,
\* store), every answer slot of the request holds an error string and there are
\* as many slots as questions.
C2_IngestionFailureAnswersAllWithErrors ==
    \A r \in Tasks :
        (Done(r) /\ req[r].ingest # "none") =>
            /\ Len(req[r].answers) = Len(req[r].questions)
            /\ \A i \in 1..Len(req[r].answers) : IsErrorString(req[r].answers[i])

\* C2 witness: the index was unreachable when a request of two questions stored
\* its chunks, in a run where an earlier request had filled the index.
C2_Witness ==
    \E r \in Tasks :
        /\ Done(r)
        /\ req[r].ingest = "Failed to store chunks"
        /\ Len(req[r].questions) = 2
        /\ DOMAIN collection.points # {}

\* C3.  After a successful ingestion the slots that hold an error string are
\* exactly those of the questions for which a call failed; every other slot holds
\* the answer given to its own question, and every question is processed.
C3_QuestionFailureStaysInItsSlot ==
    \A r \in Tasks :
        (Done(r) /\ req[r].ingest = "none") =>
            /\ Len(req[r].answers) = Len(req[r].questions)
            /\ Len(req[r].faults) = Len(req[r].questions)
            /\ \A i \in 1..Len(req[r].questions) :
                  /\ IsErrorString(req[r].answers[i]) <=> req[r].faults[i] # "none"
                  /\ "question" \in DOMAIN req[r].answers[i]
                  /\ req[r].answers[i].question = req[r].questions[i]

\* C3 witness: the generation call of the first of two questions failed, the
\* second question was answered.
C3_Witness ==
    \E r \in Tasks :
        /\ Done(r)
        /\ req[r].ingest = "none"
        /\ req[r].faults = <<"chat/completions", "none">>
        /\ IsErrorString(req[r].answers[1])
        /\ req[r].answers[2] = Completion([question |-> req[r].questions[2]])

\* C4 (as stated).  A request whose document has no extractable text, and for
\* which no call fails, answers every question with "couldn't find relevant
\* information", whatever requests were processed before it.
C4_EmptyDocumentAnswersNotFound ==
    \A r \in Tasks :
        (/\ Done(r)
         /\ req[r].ingest = "none"
         /\ req[r].chunks_processed = 0
         /\ \A i \in 1..Len(req[r].faults) : req[r].faults[i] = "none") =>
            \A i \in 1..Len(req[r].answers) :
                req[r].answers[i] = NotFound(req[r].questions[i])

\* C5 (as stated).  After the EMBED step every chunk of a document of k >= 1
\* chunks carries an embedding that is a list of exactly EMBEDDING_DIMENSION
\* floats, so every chunk handed to store_chunks has one.
C5_EveryChunkEmbeddingHasDimensionD ==
    (chunker.pc = "embedded" /\ Len(chunker.chunks) >= 1) =>
        \A n \in 1..Len(chunker.chunks) :
            /\ chunker.chunks[n].embedding.tag = "list"
            /\ Len(chunker.chunks[n].embedding.val) = EMBEDDING_DIMENSION

\* C6 (as stated).  With 0 < chunk_overlap < chunk_size, the last chunk_overlap
\* tokens of each chunk equal the first chunk_overlap tokens of the next chunk.
C6_AdjacentChunksShareOverlap ==
    (/\ chunker.pc = "returned"
     /\ 0 < chunker.chunk_overlap
     /\ chunker.chunk_overlap < chunker.chunk_size) =>
        \A n \in 1..Len(chunker.chunks) - 1 :
            LastN(Tokens(chunker.chunks[n]), chunker.chunk_overlap)
                = FirstN(Tokens(chunker.chunks[n + 1]), chunker.chunk_overlap)

\* C7 (as stated).  With chunk_overlap >= chunk_size, chunk_text fails and never
\* returns a chunk list.
C7_OverlapNotBelowSizeRaises ==
    (chunker.pc # "call" /\ chunker.chunk_overlap >= chunker.chunk_size) =>
        chunker.pc = "raised"

\* C8 (as stated).  Every chunk but the last has exactly chunk_size tokens, the
\* last has between 1 and chunk_size tokens.
C8_OnlyLastChunkShorter ==
    (chunker.pc = "returned" /\ chunker.chunk_overlap < chunker.chunk_size) =>
        \A n \in 1..Len(chunker.chunks) :
            /\ Len(Tokens(chunker.chunks[n])) >= 1
            /\ Len(Tokens(chunker.chunks[n])) <= chunker.chunk_size
            /\ n < Len(chunker.chunks) =>
                   Len(Tokens(chunker.chunks[n])) = chunker.chunk_size
\* The step in which task r stores a document whose URL was last ingested with
\* the same text.
Reingested(r) ==
    /\ req[r].pc = "downloading"
    /\ req'[r].pc = "answering"
    /\ last_text'[req[r].url].times >= 2

PointIds(c) == DOMAIN c.points

\* C9.  Ingesting a document whose text is unchanged a second time leaves the set
\* of point ids of the index as it was: the points are overwritten.
C9_ReingestionKeepsPointIds ==
    [][\A r \in Tasks : Reingested(r) => PointIds(collection') = PointIds(collection)]_vars

\* C9 witness: a document of two chunks was ingested twice in a row under one URL.
C9_Witness ==
    \E u \in URLs :
        /\ last_text[u].times >= 2
        /\ Len(split(last_text[u].text)) = 2
        /\ PointIds(collection) # {}

\* C10 (as stated).  Every re-ingestion of a URL with unchanged content adds
\* points: the point count strictly increases.
C10_ReingestionGrowsIndex ==
    [][\A r \in Tasks :
          Reingested(r) =>
              Cardinality(PointIds(collection')) > Cardinality(PointIds(collection))]_vars

\* C10 (amended).  A re-ingestion of a URL with unchanged content adds no point:
\* the point count after it is the point count before it.
C10_ReingestionKeepsPointCount ==
    [][\A r \in Tasks :
          Reingested(r) =>
              Cardinality(PointIds(collection')) = Cardinality(PointIds(collection))]_vars

\* C10 witness: after the second ingestion of a two-chunk document the index
\* holds two points.
C10_Witness ==
    \E u \in URLs :
        /\ last_text[u].times = 2
        /\ Cardinality(PointIds(collection)) = 2
        /\ Len(split(last_text[u].text)) = 2

\* The points of the collection whose score clears the threshold of the search.
Clearing ==
    {id \in DOMAIN collection.points :
        Cosine(chunker.query_embedding.val, collection.points[id].vector)
            >= chunker.score_threshold}

\* C11.  A search that returns gives at most limit results, in non-increasing
\* order of score, each of a score not below the threshold; when the index is
\* reachable and no point clears the threshold it returns the empty list.
C11_SearchBoundedSortedAboveThreshold ==
    /\ chunker.pc = "returned" =>
          /\ Len(chunker.results) <= chunker.limit
          /\ \A n \in 1..Len(chunker.results) :
                /\ chunker.results[n].score >= chunker.score_threshold
                /\ n > 1 => chunker.results[n - 1].score >= chunker.results[n].score
    /\ (chunker.pc # "call" /\ chunker.reachable /\ Clearing = {}) =>
          (chunker.pc = "returned" /\ chunker.results = <<>>)

\* C11 witness: three points clear the threshold with two different scores, and
\* the search returned its limit of two results.
C11_Witness ==
    /\ chunker.pc = "returned"
    /\ Cardinality(Clearing) = 3
    /\ chunker.score_threshold > 0
    /\ Len(chunker.results) = 2
    /\ chunker.results[1].score > chunker.results[2].score

\* C11 witness of the empty result: points are stored, none clears the threshold.
C11_WitnessEmpty ==
    /\ chunker.pc = "returned"
    /\ DOMAIN collection.points # {}
    /\ chunker.results = <<>>

\* C12.  The relevance of a score s is "high" iff s >= 0.8, "medium" iff
\* 0.6 <= s < 0.8, and "low" otherwise (scores in units of 0.00001).
C12_RelevanceTiers ==
    chunker.pc = "returned" =>
        /\ chunker.relevance = "high" <=> chunker.score >= 80000
        /\ chunker.relevance = "medium" <=>
               (60000 <= chunker.score /\ chunker.score < 80000)
        /\ chunker.relevance = "low" <=> chunker.score < 60000
        /\ chunker.score = 80000 => chunker.relevance = "high"
        /\ chunker.score = 60000 => chunker.relevance = "medium"
        /\ chunker.score = 59999 => chunker.relevance = "low"

\* C12 witness: the score 0.6, the lower bound of its tier, was labelled medium.
C12_Witness ==
    /\ chunker.pc = "returned"
    /\ chunker.score = 60000
    /\ chunker.relevance = "medium"

\* C13.  The context has min(n, 5) entries; entry i carries the text of result i
\* and its score to three decimals, so no result after the fifth is in it.
C13_ContextIsFirstFiveInOrder ==
    chunker.pc = "returned" =>
        /\ Len(chunker.context) = Min(Len(chunker.context_chunks), 5)
        /\ \A i \in 1..Len(chunker.context) :
              /\ i <= Len(chunker.context_chunks)
              /\ chunker.context[i].number = i
              /\ chunker.context[i].chunk_text = chunker.context_chunks[i].chunk.content
              /\ 100 * chunker.context[i].relevance - chunker.context_chunks[i].score
                    \in -49..50

\* C13 witness: six results were given, the sixth of them unlike the first five.
C13_Witness ==
    /\ chunker.pc = "returned"
    /\ Len(chunker.context_chunks) = 6
    /\ \A i \in 1..5 : chunker.context_chunks[i] # chunker.context_chunks[6]
    /\ chunker.context_chunks[1] # chunker.context_chunks[2]
    /\ Len(chunker.context) = 5

\* C14.  A request whose bearer token is not the configured secret is rejected
\* with status 401, and the step that receives it calls no service method
\* (download, embedding, store, search, generation) and leaves the index as it was.
C14_BadTokenRejectedBeforePipeline ==
    [][\A r \in Tasks :
          (req'[r].pc # "idle" /\ ~req'[r].token_ok) =>
              /\ req'[r].pc = "rejected"
              /\ req'[r].status = 401
              /\ req'[r].calls = <<>>
              /\ req'[r].answers = <<>>
              /\ collection' = collection
              /\ last_text' = last_text]_vars

\* C14 witness: a request with a wrong token was rejected while the index held
\* the points of an earlier request.
C14_Witness ==
    \E r \in Tasks :
        /\ req[r].pc = "rejected"
        /\ ~req[r].token_ok
        /\ req[r].status = 401
        /\ DOMAIN collection.points # {}

\* C15 (as stated).  With the index unreachable a status operation returns (it
\* does not raise), and what it returns reports the index as degraded or
\* unavailable: neither "operational" nor "healthy".
C15_UnreachableIndexReportedDegraded ==
    (chunker.pc = "returned" /\ ~chunker.reachable) =>
        /\ chunker.status_code = 200
        /\ chunker.system_status.status # "operational"
        /\ chunker.body.status \notin {"operational", "healthy"}

\* C16.  When no call of the index fails, store_chunks returns; every chunk that
\* has an embedding is a point of the index with its vector and content, a chunk
\* without one leaves the point of its id as it was (absent or as stored
\* before), and when no chunk has an embedding the points are those of before.
C16_ChunksWithoutEmbeddingSkipped ==
    (chunker.pc # "call" /\ chunker.qdrant = "ok") =>
        /\ chunker.pc = "returned"
        /\ \A n \in 1..Len(chunker.chunks) :
              LET chunk == chunker.chunks[n]
              IN IF chunk.embedding # None
                 THEN /\ chunk.id \in DOMAIN collection.points
                      /\ collection.points[chunk.id].vector = chunk.embedding.val
                      /\ collection.points[chunk.id].payload.content = chunk.content
                 ELSE IF chunk.id \in DOMAIN chunker.before.points
                 THEN /\ chunk.id \in DOMAIN collection.points
                      /\ collection.points[chunk.id] = chunker.before.points[chunk.id]
                 ELSE chunk.id \notin DOMAIN collection.points
        /\ (\A n \in 1..Len(chunker.chunks) : chunker.chunks[n].embedding = None)
              => collection.points = chunker.before.points

\* C16 witness: of two chunks the first had no embedding; the call returned and
\* the index holds the second chunk only.
C16_Witness ==
    /\ chunker.pc = "returned"
    /\ Len(chunker.chunks) = 2
    /\ chunker.chunks[1].embedding = None
    /\ chunker.chunks[2].embedding # None
    /\ DOMAIN collection.points = {chunker.chunks[2].id}

\* C16 witness of the call that writes nothing: chunks were given, none of them
\* with an embedding, and the call returned.
C16_WitnessNoWrite ==
    /\ chunker.pc = "returned"
    /\ Len(chunker.chunks) = 2
    /\ \A n \in 1..2 : chunker.chunks[n].embedding = None
    /\ DOMAIN collection.points # {}

\* The place of a service method in the order of the steps of its stage.
Rank(method) ==
    CASE method = "process_document" -> 1
      [] method = "create_embeddings" -> 2
      [] method = "store_chunks" -> 3
      [] method = "search_similar_chunks" -> 3
      [] method = "generate_answer" -> 4

\* C17.  The service calls of a request are issued in order and once: no call is
\* repeated; the calls for the document come first and in the order download,
\* embedding, store; a call for a question is issued only after the store
\* returned and after the answers of all earlier questions were appended; for a
\* question the order is embedding, retrieval, generation, each at most once and
\* each only after the one before it; a failed ingestion is followed by no call.
C17_StepsInOrderWithoutRetries ==
    \A r \in Tasks :
        LET calls == req[r].calls
        IN /\ \A m, n \in 1..Len(calls) :
                 m < n =>
                     /\ calls[m] # calls[n]
                     /\ calls[m].question <= calls[n].question
                     /\ calls[m].question = calls[n].question =>
                            Rank(calls[m].method) < Rank(calls[n].method)
           /\ \A n \in 1..Len(calls) :
                 /\ Rank(calls[n].method) > (IF calls[n].question = 0 THEN 1 ELSE 2) =>
                        /\ n > 1
                        /\ calls[n - 1].question = calls[n].question
                        /\ Rank(calls[n - 1].method) = Rank(calls[n].method) - 1
                 /\ calls[n].question >= 1 =>
                        /\ req[r].ingest = "none"
                        /\ \E m \in 1..n - 1 : calls[m] = Called("store_chunks", 0)
                        /\ calls[n].question <= Len(req[r].questions)
                        /\ Len(req[r].answers) >= calls[n].question - 1
                        /\ calls[n].method \in {"create_embeddings",
                                                 "search_similar_chunks", "generate_answer"}
           /\ req[r].ingest # "none" =>
                 \A n \in 1..Len(calls) :
                     calls[n].method \notin {"search_similar_chunks", "generate_answer"}

\* C17 witness: a request of two questions ended after a failed retrieval for
\* the first question and a generation call for the second.
C17_Witness ==
    \E r \in Tasks :
        /\ Done(r)
        /\ Len(req[r].questions) = 2
        /\ Len(req[r].faults) = 2
        /\ req[r].faults[1] = "search"
        /\ req[r].calls[Len(req[r].calls)] = Called("generate_answer", 2)

\* C17 witness of the failed ingestion: the store failed and the request ended.
C17_WitnessIngestionFailed ==
    \E r \in Tasks :
        /\ Done(r)
        /\ req[r].ingest # "none"
        /\ req[r].calls[Len(req[r].calls)] = Called("store_chunks", 0)

\* C18 (as stated).  Every chunk retrieved for a question of a request, and so
\* every chunk in the context of its prompt, comes from the document of that
\* request: its source_url is the URL of the request.
C18_RetrievedChunksComeFromRequestDocument ==
    \A r \in Tasks :
        \A n \in 1..Len(req[r].relevant_chunks) :
            req[r].relevant_chunks[n].chunk.metadata.source_url = req[r].url

\* C19 (as stated).  The chunks of one document have pairwise distinct ids, and
\* once its k chunks are stored into an empty index the index holds k points.
C19_ChunkIdsDistinct ==
    /\ chunker.pc \in {"returned", "embedded", "stored"} =>
          \A m, n \in 1..Len(chunker.chunks) :
              m # n => chunker.chunks[m].id # chunker.chunks[n].id
    /\ chunker.pc = "stored" =>
          Cardinality(DOMAIN collection.points) = Len(chunker.chunks)

====
